---- MODULE Spec2Model ----
(***************************************************************************)
(* Model of the android_automation scripts.  Each script is a sequential   *)
(* procedure that shells out to adb and inspects the text it prints.       *)
(* Text is modelled as a sequence of one-character strings so that strip,  *)
(* split, lower and the substring test `in` are computed as Python does.   *)
(***************************************************************************)
EXTENDS Integers, Sequences, FiniteSets, TLC

(* ------------------------------ bounds --------------------------------- *)

\* The largest number of listing lines `adb devices` prints after its header.
MaxLines == 2

\* The largest number of external commands that exit non-zero in one run.
MaxFaults == 2

(* --------------------------- text literals ----------------------------- *)

Header == <<"L", "i", "s", "t", " ", "o", "f", " ", "d", "e", "v", "i", "c", "e", "s", " ", "a", "t", "t", "a", "c", "h", "e", "d">>
T_device == <<"d", "e", "v", "i", "c", "e">>
T_offline == <<"o", "f", "f", "l", "i", "n", "e">>
T_unauthorized == <<"u", "n", "a", "u", "t", "h", "o", "r", "i", "z", "e", "d">>
T_connected == <<"c", "o", "n", "n", "e", "c", "t", "e", "d">>
T_Unknown == <<"U", "n", "k", "n", "o", "w", "n">>
S_emu1 == <<"e", "m", "u", "l", "a", "t", "o", "r", "-", "5", "5", "5", "4">>
S_emu2 == <<"e", "m", "u", "2">>
S_mydevice == <<"m", "y", "d", "e", "v", "i", "c", "e", "0", "1">>
S_emu3 == <<"e", "m", "u", "3">>
S_emu4 == <<"e", "m", "u", "4">>
S_net == <<"1", "9", "2", ".", "1", "6", "8", ".", "1", ".", "5", ":", "5", "5", "5", "5">>
Ip == <<"1", "9", "2", ".", "1", "6", "8", ".", "1", ".", "5">>
Port5555 == <<":", "5", "5", "5", "5">>
P_connected_to == <<"c", "o", "n", "n", "e", "c", "t", "e", "d", " ", "t", "o", " ">>
P_Connected_to == <<"C", "o", "n", "n", "e", "c", "t", "e", "d", " ", "t", "o", " ">>
P_failed_to == <<"f", "a", "i", "l", "e", "d", " ", "t", "o", " ", "c", "o", "n", "n", "e", "c", "t", " ", "t", "o", " ">>
Out_unable == <<"u", "n", "a", "b", "l", "e", " ", "t", "o", " ", "c", "o", "n", "n", "e", "c", "t", "\n">>
V_model == <<"P", "i", "x", "e", "l", " ", "5", "\n">>
V_version == <<"1", "3", "\n">>
V_manufacturer == <<"G", "o", "o", "g", "l", "e", "\n">>
Tab == <<"\t">>
NL == <<"\n">>
Empty == <<>>

\* Python's None: a value no text equals.
None == <<"<None>">>

(* ----------------------- Python string methods ------------------------- *)

\* The characters str.strip() and str.split() treat as whitespace.
Whitespace == {" ", "\t", "\n", "\r", "\f"}

RECURSIVE lstrip(_)
lstrip(s) ==
    IF s = <<>> THEN <<>>
    ELSE IF Head(s) \in Whitespace THEN lstrip(Tail(s)) ELSE s

RECURSIVE rstrip(_)
rstrip(s) ==
    IF s = <<>> THEN <<>>
    ELSE IF s[Len(s)] \in Whitespace THEN rstrip(SubSeq(s, 1, Len(s) - 1)) ELSE s

\* s.strip()
strip(s) == rstrip(lstrip(s))

\* s.split(c): every occurrence of c separates two (possibly empty) parts.
RECURSIVE split_on(_, _, _)
split_on(s, c, cur) ==
    IF s = <<>> THEN <<cur>>
    ELSE IF Head(s) = c THEN <<cur>> \o split_on(Tail(s), c, <<>>)
    ELSE split_on(Tail(s), c, Append(cur, Head(s)))

\* s.split(): runs of whitespace separate the parts, no part is empty.
RECURSIVE split_ws(_, _)
split_ws(s, cur) ==
    IF s = <<>> THEN (IF cur = <<>> THEN <<>> ELSE <<cur>>)
    ELSE IF Head(s) \in Whitespace
         THEN (IF cur = <<>> THEN <<>> ELSE <<cur>>) \o split_ws(Tail(s), <<>>)
         ELSE split_ws(Tail(s), Append(cur, Head(s)))

split(s) == split_ws(s, <<>>)

\* sub in s
Contains(sub, s) ==
    \E i \in 0..(Len(s) - Len(sub)) : SubSeq(s, i + 1, i + Len(sub)) = sub

lower_char(c) ==
    CASE c = "A" -> "a" [] c = "B" -> "b" [] c = "C" -> "c" [] c = "D" -> "d"
      [] c = "E" -> "e" [] c = "F" -> "f" [] c = "G" -> "g" [] c = "H" -> "h"
      [] c = "I" -> "i" [] c = "J" -> "j" [] c = "K" -> "k" [] c = "L" -> "l"
      [] c = "M" -> "m" [] c = "N" -> "n" [] c = "O" -> "o" [] c = "P" -> "p"
      [] c = "Q" -> "q" [] c = "R" -> "r" [] c = "S" -> "s" [] c = "T" -> "t"
      [] c = "U" -> "u" [] c = "V" -> "v" [] c = "W" -> "w" [] c = "X" -> "x"
      [] c = "Y" -> "y" [] c = "Z" -> "z" [] OTHER -> c

\* s.lower()
lower(s) == [i \in 1..Len(s) |-> lower_char(s[i])]

\* Python truthiness of an Optional[str]: None and "" are false.
Truthy(x) == x # None /\ x # <<>>

(* ------------------- what the external adb can answer ------------------ *)

\* A line of the `adb devices` listing: serial, separator, state.
ListingEntries ==
    { [serial |-> S_emu1,     sep |-> Tab,   state |-> T_device],
      [serial |-> S_net,      sep |-> Tab,   state |-> T_device],
      [serial |-> S_emu2,     sep |-> Tab,   state |-> T_offline],
      [serial |-> S_mydevice, sep |-> Tab,   state |-> T_offline],
      [serial |-> S_emu3,     sep |-> Tab,   state |-> T_unauthorized],
      [serial |-> S_emu4,     sep |-> Empty, state |-> Empty],
      [serial |-> Empty,      sep |-> Tab,   state |-> Empty],
      [serial |-> Empty,      sep |-> Empty, state |-> Empty] }

Listings == UNION { [1..n -> ListingEntries] : n \in 0..MaxLines }

RenderEntry(e) == e.serial \o e.sep \o e.state

RECURSIVE RenderEntries(_)
RenderEntries(es) ==
    IF es = <<>> THEN <<>> ELSE RenderEntry(Head(es)) \o NL \o RenderEntries(Tail(es))

\* The text adb prints: the header, one line per entry, a closing blank line.
RenderListing(es) == Header \o NL \o RenderEntries(es) \o NL

\* stdout of `adb connect <target>` with its exit status.
ConnectResults(target) ==
    { [returncode |-> 0, stdout |-> P_connected_to \o target \o NL],
      [returncode |-> 0, stdout |-> P_Connected_to \o target \o NL],
      [returncode |-> 0, stdout |-> P_failed_to \o target \o NL],
      [returncode |-> 1, stdout |-> Out_unable],
      [returncode |-> 1, stdout |-> Empty] }

\* stdout of `adb -s <serial> shell getprop <prop>` with its exit status.
GetpropResults(value) ==
    { [returncode |-> 0, stdout |-> value],
      [returncode |-> 1, stdout |-> Empty] }

ExitStatuses == {0, 1}

\* sys.argv: the script name and at most one positional argument.
Prog == <<"verify_device_connection.py">>

ArgvChoices == { <<Prog>>, <<Prog, Ip>> }

\* stdout of `adb devices` with its exit status, and the entries it renders.
DevicesResults ==
    { [returncode |-> 0, stdout |-> RenderListing(es), entries |-> es] : es \in Listings }
    \cup { [returncode |-> 0, stdout |-> Header \o NL, entries |-> <<>>],
           [returncode |-> 0, stdout |-> Header, entries |-> <<>>],
           [returncode |-> 1, stdout |-> Empty, entries |-> <<>>] }

(* ------------------------------- state --------------------------------- *)

VARIABLES
    pc,                 \* the statement the script is at
    argv,               \* sys.argv
    device_ip,          \* main: device_ip
    devices_output,     \* verify_device_connection: devices_output
    lines,              \* the list the for loop of line 82 iterates
    line_idx,           \* position of that loop
    serial,             \* verify_device_connection: serial
    connected_devices,  \* the list of DeviceInfo dicts
    dev_idx,            \* position of main's for loop over connected_devices
    calls,              \* every subprocess.run issued so far, with its result
    printed,            \* the status lines written to the console
    exit_status,        \* <<>> while running, <<status>> once the process ended
    exception,          \* the exception that left main, None if none did
    listing,            \* the entries adb rendered into the device list
    origin,             \* origin[k]: the listing line DeviceInfo k was built for
    test_returned,      \* the values test_device_connection returned, in order
    devices,            \* enable_tcpip_mode: devices
    platform_system,    \* what platform.system() answers
    version_info,       \* sys.version_info as <<major, minor>>
    setup_success,      \* setup_uiautomator2 main: setup_success
    status_details,     \* setup_uiautomator2 main: status_details
    failed_packages,    \* install_requirements: failed_packages
    installed,          \* verify_installation: installed
    pkg_idx,            \* position of the for loop over the packages
    imports,            \* the calls of importlib.import_module, with their outcome
    reports,            \* the calls of create_status_report, in order
    files               \* the names of the files written so far

vars == <<pc, argv, device_ip, devices_output, lines, line_idx, serial,
          connected_devices, dev_idx, calls, printed,
          exit_status, exception, listing, origin, test_returned, devices,
          platform_system, version_info, setup_success, status_details,
          failed_packages, installed, imports, pkg_idx, reports, files>>

parse_vars == <<devices_output, lines, line_idx, serial>>
input_vars == <<argv, listing>>
cfg_vars == <<devices, platform_system>>
setup_vars == <<version_info, setup_success, status_details, failed_packages,
                installed, imports, pkg_idx, reports, files>>
verify_vars == <<device_ip, devices_output, lines, line_idx, serial,
                 connected_devices, dev_idx, origin, test_returned>>

\* The variables of setup_uiautomator2.py before its main has run.
SetupNotStarted ==
    /\ version_info = <<3, 6>>
    /\ setup_success = TRUE
    /\ status_details = <<>>
    /\ failed_packages = <<>>
    /\ installed = <<>>
    /\ imports = <<>>
    /\ pkg_idx = 1
    /\ reports = <<>>
    /\ files = {}

(* --------------------------- subprocess.run ---------------------------- *)

\* subprocess.run raises CalledProcessError only when check=True and the
\* command exits non-zero.
RunRaises(check, returncode) == check /\ returncode # 0

\* The record kept of one subprocess.run call; at is the listing line or the
\* DeviceInfo position the call was made for, 0 when it is for neither.
Call(args, check, at, r) ==
    [argv |-> args, check |-> check, at |-> at,
     returncode |-> r.returncode, stdout |-> r.stdout]

\* The result of a call whose output the script does not read.
NoOutput(rc) == [returncode |-> rc, stdout |-> Empty]

Say(msg, at) == [msg |-> msg, at |-> at]

\* The commands that exited non-zero so far.
Faults == Cardinality({ n \in 1..Len(calls) : calls[n].returncode # 0 })

\* An exit status the run can still see: a failure only below the bound.
MayExit(rc) == IF rc = 0 THEN TRUE ELSE Faults < MaxFaults

(* ---------------------- verify_device_connection.py -------------------- *)

\* f'{device_ip}:5555'
ConnectTarget(ip) == ip \o Port5555

ConnectArgv(ip) == <<"adb", "connect", ConnectTarget(ip)>>
DevicesArgv == <<"adb", "devices">>
GetpropArgv(s, prop) == <<"adb", "-s", s, "shell", "getprop", prop>>
PingArgv(s) == <<"adb", "-s", s, "shell", "ping", "-c", "1", "127.0.0.1">>
LsArgv(s) == <<"adb", "-s", s, "shell", "ls", "/data/local/tmp">>

\* The marker shortened to "connect".
ConnectSucceededByConnect(stdout) == Contains(SubSeq(T_connected, 1, 7), lower(stdout))

\* 'connected' not in result.stdout.lower() is the failure test.
ConnectSucceeded(stdout) == Contains(T_connected, lower(stdout))

\* The slice [1:] forgotten: the header is parsed as a listing line.
ListingLinesWithHeader(output) == split_on(output, "\n", <<>>)

\* devices_output.split('\n')[1:]
ListingLines(output) == Tail(split_on(output, "\n", <<>>))

\* The emptiness test dropped: every line is split.
LineNonEmptyAlways(line) == TRUE

\* if line.strip():
LineNonEmpty(line) == strip(line) # <<>>

\* The substring test applied to the serial instead of the line.
IsConnectedLineBySerial(line) == Contains(T_device, split(line)[1])

\* if 'device' in line:
IsConnectedLine(line) == Contains(T_device, line)

\* The calls of get_device_info pass no check argument.
GetpropCheck == FALSE

\* subprocess.run(...).stdout.strip()
PropertyValue(r) == strip(r.stdout)

\* The dict get_device_info returns from its try block.
DeviceInfo(s, m, v, mf) ==
    [serial |-> s, model |-> m, android_version |-> v, manufacturer |-> mf]

\* The dict get_device_info returns from its except block.
UnknownDeviceInfo(s) ==
    [serial |-> s, model |-> T_Unknown, android_version |-> T_Unknown,
     manufacturer |-> T_Unknown]

InitVerify ==
    /\ pc = "main"
    /\ argv \in ArgvChoices
    /\ device_ip = None
    /\ devices_output = Empty
    /\ lines = <<>>
    /\ line_idx = 0
    /\ serial = None
    /\ connected_devices = <<>>
    /\ dev_idx = 0
    /\ calls = <<>>
    /\ printed = <<>>
    /\ exit_status = <<>>
    /\ exception = None
    /\ listing = <<>>
    /\ origin = <<>>
    /\ test_returned = <<>>
    /\ devices = None
    /\ platform_system = "Windows"
    /\ SetupNotStarted

\* main, lines 123-129: read the optional argument and call
\* verify_device_connection, which connects first when an IP is given.
MainEntry ==
    /\ pc = "main"
    /\ device_ip' = (IF Len(argv) > 1 THEN argv[2] ELSE None)
    /\ printed' = Append(printed, Say("banner", 0))
    /\ pc' = (IF Truthy(device_ip') THEN "connect" ELSE "devices")
    /\ UNCHANGED <<setup_vars, cfg_vars, parse_vars, input_vars, connected_devices, dev_idx,
                   calls, exit_status, exception, origin, test_returned>>

\* verify_device_connection, lines 62-72: adb connect <ip>:5555.  Neither this
\* call nor the one of line 75 passes check=True, so the except block of lines
\* 89-91 has nothing to catch.
Connect ==
    /\ pc = "connect"
    /\ \E r \in ConnectResults(ConnectTarget(device_ip)) :
         /\ MayExit(r.returncode)
         /\ calls' = Append(calls, Call(ConnectArgv(device_ip), FALSE, 0, r))
         /\ IF ~ConnectSucceeded(r.stdout)
            THEN /\ printed' = printed \o <<Say("connecting", 0), Say("connect_failed", 0)>>
                 /\ connected_devices' = <<>>
                 /\ pc' = "main_check"
            ELSE /\ printed' = Append(printed, Say("connecting", 0))
                 /\ connected_devices' = connected_devices
                 /\ pc' = "devices"
    /\ UNCHANGED <<setup_vars, cfg_vars, parse_vars, input_vars, device_ip, dev_idx,
                   exit_status, exception, origin, test_returned>>

\* verify_device_connection, lines 75-82: adb devices, strip, split, skip header.
ListDevices ==
    /\ pc = "devices"
    /\ \E r \in DevicesResults :
         /\ MayExit(r.returncode)
         /\ calls' = Append(calls, Call(DevicesArgv, FALSE, 0, r))
         /\ listing' = r.entries
         /\ devices_output' = strip(r.stdout)
    /\ lines' = ListingLines(devices_output')
    /\ line_idx' = 1
    /\ pc' = "for_line"
    /\ UNCHANGED <<setup_vars, cfg_vars, argv, device_ip, serial, connected_devices, dev_idx,
                   printed, exit_status, exception, origin, test_returned>>

\* verify_device_connection, lines 82-86: one iteration of the for loop up to
\* the call of get_device_info.
ForLine ==
    /\ pc = "for_line"
    /\ line_idx <= Len(lines)
    /\ LET line == lines[line_idx] IN
         IF ~LineNonEmpty(line)
         THEN /\ line_idx' = line_idx + 1
              /\ UNCHANGED <<pc, serial, exit_status, exception>>
         ELSE IF split(line) = <<>>
         THEN \* line.split()[0] raises IndexError, which nothing catches
              /\ pc' = "crashed"
              /\ exception' = <<"IndexError">>
              /\ exit_status' = <<1>>
              /\ UNCHANGED <<line_idx, serial>>
         ELSE /\ serial' = split(line)[1]
              /\ IF IsConnectedLine(line)
                 THEN pc' = "get_device_info" /\ line_idx' = line_idx
                 ELSE pc' = pc /\ line_idx' = line_idx + 1
              /\ UNCHANGED <<exit_status, exception>>
    /\ UNCHANGED <<setup_vars, cfg_vars, input_vars, device_ip, devices_output, lines,
                   connected_devices, dev_idx, calls, printed, origin, test_returned>>

\* The three queries of get_device_info, in the order it issues them.
PropNames == <<"ro.product.model", "ro.build.version.release", "ro.product.manufacturer">>

\* The queries get_device_info gets to issue when their results are rs: a
\* query that raises ends the try block.
RECURSIVE Issued(_)
Issued(rs) ==
    IF rs = <<>> THEN <<>>
    ELSE IF RunRaises(GetpropCheck, Head(rs).returncode) THEN <<Head(rs)>>
    ELSE <<Head(rs)>> \o Issued(Tail(rs))

\* get_device_info, lines 22-55, and the append of line 87: the three
\* getprop queries of one accepted line and the dict built from them.
GetDeviceInfo ==
    /\ pc = "get_device_info"
    /\ \E r1 \in GetpropResults(V_model), r2 \in GetpropResults(V_version),
          r3 \in GetpropResults(V_manufacturer) :
         LET rs == <<r1, r2, r3>>
             done == Issued(rs)
             failed == Cardinality({ j \in 1..Len(done) : done[j].returncode # 0 })
             raised == RunRaises(GetpropCheck, done[Len(done)].returncode)
         IN  /\ Faults + failed <= MaxFaults
             \* results of queries that are never issued are not inputs
             /\ \A j \in (Len(done) + 1)..3 : rs[j].returncode = 0
             /\ calls' = calls \o
                  [j \in 1..Len(done) |->
                     Call(GetpropArgv(serial, PropNames[j]), GetpropCheck, line_idx, done[j])]
             /\ connected_devices' = Append(connected_devices,
                  IF raised THEN UnknownDeviceInfo(serial)
                  ELSE DeviceInfo(serial, PropertyValue(r1), PropertyValue(r2),
                                  PropertyValue(r3)))
    /\ origin' = Append(origin, line_idx)
    /\ line_idx' = line_idx + 1
    /\ pc' = "for_line"
    /\ UNCHANGED <<setup_vars, cfg_vars, input_vars, device_ip, devices_output, lines, serial,
                   dev_idx, printed, exit_status, exception, test_returned>>

\* verify_device_connection, line 93: the loop is over, return the list.
ReturnDevices ==
    /\ pc = "for_line"
    /\ line_idx > Len(lines)
    /\ pc' = "main_check"
    /\ devices_output' = Empty
    /\ lines' = <<>>
    /\ line_idx' = 0
    /\ serial' = None
    /\ UNCHANGED <<setup_vars, cfg_vars, input_vars, device_ip, connected_devices, dev_idx,
                   calls, printed, exit_status, exception, origin, test_returned>>

\* main, lines 131-146: report an empty list and return, or announce the
\* devices and enter the loop over them.
MainCheck ==
    /\ pc = "main_check"
    /\ IF connected_devices = <<>>
       THEN /\ printed' = Append(printed, Say("no_devices", 0))
            /\ pc' = "done"
            /\ exit_status' = <<0>>
            /\ dev_idx' = dev_idx
       ELSE /\ printed' = printed \o <<Say("found", Len(connected_devices)),
                                       Say("device_info", 1)>>
            /\ pc' = "test"
            /\ exit_status' = exit_status
            /\ dev_idx' = 1
    /\ UNCHANGED <<setup_vars, cfg_vars, parse_vars, input_vars, device_ip, connected_devices,
                   calls, exception, origin, test_returned>>

\* A failed test leaves the loop instead of going on to the next device.
AfterTestStopOnFailure(returned, said) ==
    /\ test_returned' = Append(test_returned, returned)
    /\ IF dev_idx < Len(connected_devices) /\ returned
       THEN /\ printed' = printed \o said \o
                   <<Say("verify_ok", dev_idx), Say("device_info", dev_idx + 1)>>
            /\ dev_idx' = dev_idx + 1
            /\ pc' = "test"
            /\ exit_status' = exit_status
       ELSE /\ printed' = printed \o said \o
                   <<Say(IF returned THEN "verify_ok" ELSE "verify_failed", dev_idx)>>
            /\ dev_idx' = dev_idx
            /\ pc' = "done"
            /\ exit_status' = <<0>>

\* A failed test is run again on the same device.
AfterTestRetryOnFailure(returned, said) ==
    /\ test_returned' = Append(test_returned, returned)
    /\ IF ~returned
       THEN /\ printed' = printed \o said \o <<Say("verify_failed", dev_idx)>>
            /\ dev_idx' = dev_idx
            /\ pc' = "test"
            /\ exit_status' = exit_status
       ELSE IF dev_idx < Len(connected_devices)
       THEN /\ printed' = printed \o said \o
                   <<Say("verify_ok", dev_idx), Say("device_info", dev_idx + 1)>>
            /\ dev_idx' = dev_idx + 1
            /\ pc' = "test"
            /\ exit_status' = exit_status
       ELSE /\ printed' = printed \o said \o <<Say("verify_ok", dev_idx)>>
            /\ dev_idx' = dev_idx
            /\ pc' = "done"
            /\ exit_status' = <<0>>

\* main, lines 149-152 and the loop header of line 141: report what
\* test_device_connection returned and go to the next device, if any.
AfterTest(returned, said) ==
    /\ test_returned' = Append(test_returned, returned)
    /\ IF dev_idx < Len(connected_devices)
       THEN /\ printed' = printed \o said \o
                   <<Say(IF returned THEN "verify_ok" ELSE "verify_failed", dev_idx),
                     Say("device_info", dev_idx + 1)>>
            /\ dev_idx' = dev_idx + 1
            /\ pc' = "test"
            /\ exit_status' = exit_status
       ELSE /\ printed' = printed \o said \o
                   <<Say(IF returned THEN "verify_ok" ELSE "verify_failed", dev_idx)>>
            /\ dev_idx' = dev_idx
            /\ pc' = "done"
            /\ exit_status' = <<0>>

\* check=True forgotten on the probes.
ProbeCheckOmitted == FALSE

\* The probes of test_device_connection pass check=True.
ProbeCheck == TRUE

\* test_device_connection, lines 95-119, and main, lines 141-152: the ping
\* probe, then the filesystem probe unless the ping raised, then main's report
\* and its step to the next device.
TestDeviceConnection ==
    /\ pc = "test"
    /\ LET device_info == connected_devices[dev_idx]
           s == device_info.serial
       IN \E rc1, rc2 \in ExitStatuses :
            LET ping == Call(PingArgv(s), ProbeCheck, dev_idx, NoOutput(rc1))
                ls == Call(LsArgv(s), ProbeCheck, dev_idx, NoOutput(rc2))
            IN IF RunRaises(ProbeCheck, rc1)
               THEN /\ rc2 = 0
                    /\ Faults < MaxFaults
                    /\ calls' = Append(calls, ping)
                    /\ AfterTest(FALSE, <<Say("testing", dev_idx),
                                          Say("test_failed", dev_idx)>>)
               ELSE /\ Faults + (IF rc1 = 0 THEN 0 ELSE 1)
                              + (IF rc2 = 0 THEN 0 ELSE 1) <= MaxFaults
                    /\ calls' = calls \o <<ping, ls>>
                    /\ IF RunRaises(ProbeCheck, rc2)
                       THEN AfterTest(FALSE, <<Say("testing", dev_idx),
                                               Say("ping_ok", dev_idx),
                                               Say("test_failed", dev_idx)>>)
                       ELSE AfterTest(TRUE, <<Say("testing", dev_idx),
                                              Say("ping_ok", dev_idx),
                                              Say("fs_ok", dev_idx)>>)
    /\ UNCHANGED <<setup_vars, cfg_vars, parse_vars, input_vars, device_ip, connected_devices,
                   exception, origin>>

Next ==
    \/ MainEntry
    \/ Connect
    \/ ListDevices
    \/ ForLine
    \/ GetDeviceInfo
    \/ ReturnDevices
    \/ MainCheck
    \/ TestDeviceConnection

Spec == InitVerify /\ [][Next]_vars

(* ------------------------ configure_adb_network.py --------------------- *)

KillServerArgv == <<"adb", "kill-server">>
StartServerArgv == <<"adb", "start-server">>
\* ['adb', 'tcpip', str(port)] with the default port of enable_tcpip_mode.
TcpipArgv == <<"adb", "tcpip", "5555">>
\* cmd of verify_network_setup.
NetInfoArgv == IF platform_system = "Windows" THEN <<"ipconfig">> ELSE <<"ip", "addr">>

\* if 'device' not in devices: is the test for no USB device.
HasUsbDevice(output) == Contains(T_device, output)

InitConfigure ==
    /\ pc = "cfg_main"
    /\ argv = <<<<"configure_adb_network.py">>>>
    /\ platform_system \in {"Windows", "Linux"}
    /\ devices = None
    /\ device_ip = None
    /\ devices_output = Empty
    /\ lines = <<>>
    /\ line_idx = 0
    /\ serial = None
    /\ connected_devices = <<>>
    /\ dev_idx = 0
    /\ calls = <<>>
    /\ printed = <<>>
    /\ exit_status = <<>>
    /\ exception = None
    /\ listing = <<>>
    /\ origin = <<>>
    /\ test_returned = <<>>
    /\ SetupNotStarted

\* main returns: the script ends with status 0.
CfgReturn(said) ==
    /\ printed' = printed \o said
    /\ pc' = "done"
    /\ exit_status' = <<0>>

\* main, lines 87-95, and restart_adb_server, lines 26-29 and 34-36:
\* adb kill-server.
KillServer ==
    /\ pc = "cfg_main"
    /\ LET intro == <<Say("banner", 0)>>
                    \o (IF platform_system # "Windows"
                        THEN <<Say("not_windows", 0)>> ELSE <<>>)
                    \o <<Say("restarting", 0)>> IN
       \E rc \in ExitStatuses :
         /\ MayExit(rc)
         /\ calls' = Append(calls, Call(KillServerArgv, TRUE, 0, NoOutput(rc)))
         /\ IF RunRaises(TRUE, rc)
            THEN CfgReturn(intro \o <<Say("restart_failed", 0)>>)
            ELSE /\ printed' = printed \o intro
                 /\ pc' = "start_server"
                 /\ exit_status' = exit_status
    /\ UNCHANGED <<setup_vars, verify_vars, input_vars, cfg_vars, exception>>

\* restart_adb_server, lines 30-36, and main, lines 94-95: adb start-server.
StartServer ==
    /\ pc = "start_server"
    /\ \E rc \in ExitStatuses :
         /\ MayExit(rc)
         /\ calls' = Append(calls, Call(StartServerArgv, TRUE, 0, NoOutput(rc)))
         /\ IF RunRaises(TRUE, rc)
            THEN CfgReturn(<<Say("restart_failed", 0)>>)
            ELSE /\ pc' = "usb_check"
                 /\ UNCHANGED <<printed, exit_status>>
    /\ UNCHANGED <<setup_vars, verify_vars, input_vars, cfg_vars, exception>>

\* enable_tcpip_mode, lines 50-57, and main, lines 98-104: adb devices and
\* the test for an attached device.
CheckUsbDevices ==
    /\ pc = "usb_check"
    /\ \E r \in DevicesResults :
         /\ MayExit(r.returncode)
         /\ calls' = Append(calls, Call(DevicesArgv, FALSE, 0, r))
         /\ listing' = r.entries
         /\ devices' = strip(r.stdout)
    /\ IF ~HasUsbDevice(devices')
       THEN CfgReturn(<<Say("no_usb_device", 0), Say("help", 0)>>)
       ELSE /\ pc' = "tcpip"
            /\ UNCHANGED <<printed, exit_status>>
    /\ UNCHANGED <<setup_vars, verify_vars, argv, platform_system, exception>>

\* enable_tcpip_mode, lines 60-65, and main, lines 98-104: adb tcpip 5555.
EnableTcpip ==
    /\ pc = "tcpip"
    /\ \E rc \in ExitStatuses :
         /\ MayExit(rc)
         /\ calls' = Append(calls, Call(TcpipArgv, TRUE, 0, NoOutput(rc)))
         /\ IF RunRaises(TRUE, rc)
            THEN CfgReturn(<<Say("tcpip_failed", 0), Say("help", 0)>>)
            ELSE /\ printed' = Append(printed, Say("tcpip_enabled", 0))
                 /\ pc' = "verify_network"
                 /\ exit_status' = exit_status
    /\ UNCHANGED <<setup_vars, verify_vars, input_vars, devices, platform_system, exception>>

\* verify_network_setup, lines 69-83, with verify_port_listening(5037), and
\* main, lines 107-118.
VerifyNetwork ==
    /\ pc = "verify_network"
    /\ \E listening \in BOOLEAN :
         IF ~listening
         THEN /\ CfgReturn(<<Say("network_failed", 0)>>)
              /\ calls' = calls
         ELSE \E rc \in ExitStatuses :
              /\ MayExit(rc)
              /\ calls' = Append(calls, Call(NetInfoArgv, FALSE, 0, NoOutput(rc)))
              /\ CfgReturn(<<Say("network_ok", 0)>>)
    /\ UNCHANGED <<setup_vars, verify_vars, input_vars, cfg_vars, exception>>

NextConfigure ==
    \/ KillServer
    \/ StartServer
    \/ CheckUsbDevices
    \/ EnableTcpip
    \/ VerifyNetwork

SpecConfigure == InitConfigure /\ [][NextConfigure]_vars

(* ------------------------- setup_uiautomator2.py ----------------------- *)

\* The interpreters main can run under: its f-strings need Python 3.6, and the
\* version test fails only for a major version other than 3.
VersionChoices == { <<3, 6>>, <<3, 11>>, <<4, 0>> }

\* version.major == 3 and version.minor >= 6
check_python_version(v) == v[1] = 3 /\ v[2] >= 6

sys_executable == "python3"

\* requirements of install_requirements, in list order.
requirements ==
    <<"uiautomator2", "adbutils>=0.10.0", "weditor", "pillow", "opencv-python",
      "requests", "allure-pytest", "pytest">>

\* packages_to_check of verify_installation, in the order of the dict.
packages_to_check ==
    << [module_name |-> "uiautomator2", package_name |-> "uiautomator2"],
       [module_name |-> "adbutils", package_name |-> "adbutils"],
       [module_name |-> "weditor", package_name |-> "weditor"],
       [module_name |-> "PIL", package_name |-> "pillow"],
       [module_name |-> "cv2", package_name |-> "opencv-python"],
       [module_name |-> "requests", package_name |-> "requests"],
       [module_name |-> "pytest", package_name |-> "pytest"],
       [module_name |-> "allure_pytest", package_name |-> "allure-pytest"] >>

PipInstallArgv(package) == <<sys_executable, "-m", "pip", "install", "-U", package>>
Uiautomator2InitArgv == <<sys_executable, "-m", "uiautomator2", "init">>

\* What importlib.import_module can do: return the module, raise ImportError,
\* or raise whatever else the imported module's own code raises.
ImportOutcomes == { "ok", "ImportError", "Exception" }

\* d[key] = value on a dict.
SetItem(d, key, value) == (key :> value) @@ d

\* The packages counted as installed when any one import succeeded.
all_installed_any(d) == \E k \in DOMAIN d : d[k]

\* all(installed_packages.values())
all_installed(d) == \A k \in DOMAIN d : d[k]

InitSetup ==
    /\ pc = "setup_main"
    /\ argv = <<<<"setup_uiautomator2.py">>>>
    /\ version_info \in VersionChoices
    /\ setup_success = TRUE
    /\ status_details = <<>>
    /\ failed_packages = <<>>
    /\ installed = <<>>
    /\ imports = <<>>
    /\ pkg_idx = 1
    /\ reports = <<>>
    /\ files = {}
    /\ devices = None
    /\ platform_system = "Windows"
    /\ device_ip = None
    /\ devices_output = Empty
    /\ lines = <<>>
    /\ line_idx = 0
    /\ serial = None
    /\ connected_devices = <<>>
    /\ dev_idx = 0
    /\ calls = <<>>
    /\ printed = <<>>
    /\ exit_status = <<>>
    /\ exception = None
    /\ listing = <<>>
    /\ origin = <<>>
    /\ test_returned = <<>>

\* create_status_report, lines 117-130, called with success and details:
\* the file is written unless open or json.dump raises, which is caught.
\* before and after are what main prints around the call up to its return.
create_status_report(success, details, before, after) ==
    /\ reports' = Append(reports, [success |-> success, details |-> details])
    /\ \E written \in BOOLEAN :
         /\ files' = (IF written THEN files \cup {"setup_status.json"} ELSE files)
         /\ printed' = printed \o before
                         \o <<Say(IF written THEN "report_created"
                                             ELSE "report_failed", 0)>>
                         \o after

\* main returns: the script ends with status 0.
SetupReturn ==
    /\ pc' = "returned"
    /\ exit_status' = <<0>>

\* main, lines 134-145, with check_python_version, lines 26-32.
CheckPythonVersion ==
    /\ pc = "setup_main"
    /\ IF ~check_python_version(version_info)
       THEN /\ status_details' = SetItem(status_details, "python_version", FALSE)
            /\ setup_success' = FALSE
            /\ create_status_report(FALSE, status_details',
                   <<Say("banner", 0), Say("version_incompatible", 0)>>, <<>>)
            /\ SetupReturn
       ELSE /\ status_details' = SetItem(status_details, "python_version", TRUE)
            /\ printed' = printed \o <<Say("banner", 0), Say("version_compatible", 0),
                                       Say("installing", 0)>>
            /\ pc' = "install"
            /\ UNCHANGED <<setup_success, reports, files, exit_status>>
    /\ failed_packages' = <<>>
    /\ pkg_idx' = 1
    /\ UNCHANGED <<verify_vars, input_vars, cfg_vars, version_info, installed,
                   imports, calls, exception>>

\* install_requirements, lines 50-56: one iteration of the for loop.
InstallPackage ==
    /\ pc = "install"
    /\ pkg_idx <= Len(requirements)
    /\ LET package == requirements[pkg_idx] IN
       \E rc \in ExitStatuses :
         /\ calls' = Append(calls, Call(PipInstallArgv(package), TRUE, pkg_idx,
                                        NoOutput(rc)))
         /\ IF RunRaises(TRUE, rc)
            THEN /\ failed_packages' = Append(failed_packages, package)
                 /\ printed' = printed \o <<Say("installing_package", pkg_idx),
                                            Say("install_error", pkg_idx)>>
            ELSE /\ failed_packages' = failed_packages
                 /\ printed' = Append(printed, Say("installing_package", pkg_idx))
    /\ pkg_idx' = pkg_idx + 1
    /\ UNCHANGED <<verify_vars, input_vars, cfg_vars, version_info, setup_success,
                   status_details, installed, imports, reports, files, pc,
                   exit_status, exception>>

\* install_requirements, line 58, and main, lines 148-157: the loop is over.
AfterInstall ==
    /\ pc = "install"
    /\ pkg_idx > Len(requirements)
    /\ LET install_success == Len(failed_packages) = 0 IN
         /\ status_details' =
              SetItem(status_details, "package_installation",
                      [success |-> install_success,
                       failed_packages |-> failed_packages])
         /\ IF ~install_success
            THEN /\ setup_success' = FALSE
                 /\ create_status_report(FALSE, status_details', <<>>, <<>>)
                 /\ SetupReturn
            ELSE /\ printed' = Append(printed, Say("verifying", 0))
                 /\ pc' = "verify"
                 /\ UNCHANGED <<setup_success, reports, files, exit_status>>
    /\ installed' = <<>>
    /\ pkg_idx' = 1
    /\ UNCHANGED <<verify_vars, input_vars, cfg_vars, version_info, failed_packages,
                   imports, calls, exception>>

\* verify_installation, lines 76-83: one iteration of the for loop. Only
\* ImportError is caught; any other exception leaves main.
VerifyPackage ==
    /\ pc = "verify"
    /\ pkg_idx <= Len(packages_to_check)
    /\ LET p == packages_to_check[pkg_idx] IN
       \E outcome \in ImportOutcomes :
         /\ imports' = Append(imports, [module_name |-> p.module_name,
                                        outcome |-> outcome])
         /\ IF outcome = "Exception"
            THEN /\ pc' = "crashed"
                 /\ exception' = <<"Exception">>
                 /\ exit_status' = <<1>>
                 /\ UNCHANGED <<installed, printed, pkg_idx>>
            ELSE /\ installed' = SetItem(installed, p.package_name, outcome = "ok")
                 /\ printed' = Append(printed,
                                      Say(IF outcome = "ok" THEN "package_installed"
                                                            ELSE "package_missing",
                                          pkg_idx))
                 /\ pkg_idx' = pkg_idx + 1
                 /\ UNCHANGED <<pc, exception, exit_status>>
    /\ UNCHANGED <<verify_vars, input_vars, cfg_vars, version_info, setup_success,
                   status_details, failed_packages, reports, files, calls>>

\* The lines main prints for the packages that did not import, lines 168-170.
MissingLines(d) ==
    LET Missing(n) == ~d[packages_to_check[n].package_name]
        F[n \in 0..Len(packages_to_check)] ==
            IF n = 0 THEN <<>>
            ELSE IF Missing(n) THEN Append(F[n - 1], Say("not_installed", n))
            ELSE F[n - 1]
    IN F[Len(packages_to_check)]

\* verify_installation, line 85, main, lines 160-175, and
\* create_requirements_file, lines 110-115, whose write error is caught.
AfterVerify ==
    /\ pc = "verify"
    /\ pkg_idx > Len(packages_to_check)
    /\ status_details' = SetItem(status_details, "package_verification", installed)
    /\ setup_success' = (IF all_installed(installed) THEN setup_success ELSE FALSE)
    /\ \E written \in BOOLEAN :
         /\ files' = (IF written THEN files \cup {"requirements.txt"} ELSE files)
         /\ printed' = printed
              \o (IF all_installed(installed)
                  THEN <<Say("all_installed", 0)>>
                  ELSE <<Say("some_failed", 0)>> \o MissingLines(installed)
                         \o <<Say("install_manually", 0)>>)
              \o <<Say(IF written THEN "requirements_created"
                                  ELSE "requirements_failed", 0)>>
    /\ pc' = "init"
    /\ UNCHANGED <<verify_vars, input_vars, cfg_vars, version_info, failed_packages,
                   installed, imports, pkg_idx, reports, calls, exit_status,
                   exception>>

\* setup_uiautomator2, lines 89-95, and main, lines 178-196.
SetupUiautomator2 ==
    /\ pc = "init"
    /\ \E rc \in ExitStatuses :
         LET uiautomator2_success == ~RunRaises(TRUE, rc) IN
         /\ calls' = Append(calls, Call(Uiautomator2InitArgv, TRUE, 0, NoOutput(rc)))
         /\ status_details' =
              SetItem(status_details, "uiautomator2_setup", uiautomator2_success)
         /\ IF ~uiautomator2_success
            THEN /\ setup_success' = FALSE
                 /\ create_status_report(FALSE, status_details',
                        <<Say("initializing", 0), Say("init_failed", 0)>>, <<>>)
            ELSE /\ setup_success' = setup_success
                 /\ create_status_report(setup_success, status_details',
                        <<Say("initializing", 0)>>,
                        IF setup_success
                        THEN <<Say("setup_complete", 0), Say("usage", 0)>>
                        ELSE <<Say("setup_incomplete", 0)>>)
    /\ SetupReturn
    /\ UNCHANGED <<verify_vars, input_vars, cfg_vars, version_info, failed_packages,
                   installed, imports, pkg_idx, exception>>

NextSetup ==
    \/ CheckPythonVersion
    \/ InstallPackage
    \/ AfterInstall
    \/ VerifyPackage
    \/ AfterVerify
    \/ SetupUiautomator2

SpecSetup == InitSetup /\ [][NextSetup]_vars

(* ------------------------ reading the call record ---------------------- *)

IsConnectCall(c) == Len(c.argv) = 3 /\ c.argv[2] = "connect"
IsDevicesCall(c) == Len(c.argv) = 2 /\ c.argv[2] = "devices"
IsGetpropCall(c) == Len(c.argv) = 6 /\ c.argv[5] = "getprop"
IsPingCall(c) == Len(c.argv) = 8 /\ c.argv[5] = "ping"
IsLsCall(c) == Len(c.argv) = 6 /\ c.argv[5] = "ls"
IsTcpipCall(c) == Len(c.argv) = 3 /\ c.argv[2] = "tcpip"
IsPipCall(c) == Len(c.argv) = 6 /\ c.argv[3] = "pip"
IsInitCall(c) == Len(c.argv) = 4 /\ c.argv[4] = "init"

\* The positions in calls of the commands of each kind.
ConnectCalls == { n \in 1..Len(calls) : IsConnectCall(calls[n]) }
DevicesCalls == { n \in 1..Len(calls) : IsDevicesCall(calls[n]) }
GetpropCalls == { n \in 1..Len(calls) : IsGetpropCall(calls[n]) }
PingCalls == { n \in 1..Len(calls) : IsPingCall(calls[n]) }
LsCalls == { n \in 1..Len(calls) : IsLsCall(calls[n]) }
TcpipCalls == { n \in 1..Len(calls) : IsTcpipCall(calls[n]) }
PipCalls == { n \in 1..Len(calls) : IsPipCall(calls[n]) }
InitCalls == { n \in 1..Len(calls) : IsInitCall(calls[n]) }

\* The positions in calls of the getprop queries of property prop for line i.
GetpropIdx(i, prop) ==
    { n \in 1..Len(calls) :
        IsGetpropCall(calls[n]) /\ calls[n].at = i /\ calls[n].argv[6] = prop }

PingIdx(k) == { n \in 1..Len(calls) : IsPingCall(calls[n]) /\ calls[n].at = k }
LsIdx(k) == { n \in 1..Len(calls) : IsLsCall(calls[n]) /\ calls[n].at = k }

Said(msg) == \E n \in 1..Len(printed) : printed[n].msg = msg

\* verify_device_connection has returned to main.
Listed == pc \in {"main_check", "test", "done"}

\* A text without its final newline.
Chomp(s) == IF s # <<>> /\ s[Len(s)] = "\n" THEN SubSeq(s, 1, Len(s) - 1) ELSE s

PropSet == { PropNames[j] : j \in 1..Len(PropNames) }

Field(d, prop) ==
    CASE prop = "ro.product.model" -> d.model
      [] prop = "ro.build.version.release" -> d.android_version
      [] prop = "ro.product.manufacturer" -> d.manufacturer

(* -------------------------------- claims ------------------------------- *)

\* C1: in every DeviceInfo, a field whose getprop query exited non-zero is
\* exactly "Unknown", and the serial and every field whose query exited zero
\* carry the value adb reported.
C1_FailedQueryGivesUnknown ==
    \A k \in 1..Len(connected_devices) :
      LET d == connected_devices[k] IN
      \A prop \in PropSet :
        \A n \in GetpropIdx(origin[k], prop) :
          /\ d.serial = calls[n].argv[3]
          /\ calls[n].returncode # 0 => Field(d, prop) = T_Unknown
          /\ calls[n].returncode = 0 => Field(d, prop) = Chomp(calls[n].stdout)

\* C2: no DeviceInfo is built for a listing line whose state token is
\* "offline", whatever its serial.
C2_OfflineLineYieldsNoDeviceInfo ==
    \A k \in 1..Len(origin) : listing[origin[k]].state # T_offline

\* A listing line made of a serial followed by the token "device".
IsDeviceEntry(e) == e.serial # <<>> /\ e.sep # <<>> /\ e.state = T_device

\* C3: once the listing is parsed, every line made of a serial and the token
\* "device" has exactly one DeviceInfo, which carries the line's serial, and
\* the DeviceInfos are in the order of their lines.
C3_DeviceLineYieldsOneDeviceInfo ==
    Listed =>
      /\ \A i \in 1..Len(listing) :
           IsDeviceEntry(listing[i]) =>
             /\ Cardinality({ k \in 1..Len(origin) : origin[k] = i }) = 1
             /\ \A k \in 1..Len(origin) :
                  origin[k] = i => connected_devices[k].serial = listing[i].serial
      /\ Len(origin) = Len(connected_devices)
      /\ \A k1, k2 \in 1..Len(origin) : k1 < k2 => origin[k1] < origin[k2]

C3_Witness ==
    /\ pc = "done"
    /\ Len(listing) = 2
    /\ listing[1].serial = S_emu1 /\ listing[1].state = T_device
    /\ listing[2].serial = S_net /\ listing[2].state = T_device
    /\ Len(connected_devices) = 2
    /\ connected_devices[1].serial = S_emu1
    /\ connected_devices[2].serial = S_net

\* The device list holds the header line only, or nothing at all.
HeaderOnly(stdout) == stdout \in {Empty, Header, Header \o NL, Header \o NL \o NL}

\* C4: when adb devices prints only the header line (or nothing), no getprop
\* query is ever issued and verify_device_connection returns an empty list.
C4_HeaderOnlyGivesEmptyList ==
    \A n \in DevicesCalls :
      HeaderOnly(calls[n].stdout) =>
        /\ GetpropCalls = {}
        /\ connected_devices = <<>>
        /\ pc \notin {"get_device_info", "test"}

C4_Witness ==
    /\ pc = "done"
    /\ \E n \in DevicesCalls : calls[n].stdout = Header \o NL \o NL
    /\ connected_devices = <<>>
    /\ Said("no_devices")

\* C5: test_device_connection returns True exactly when the ping probe and
\* the filesystem probe both exited zero, and no exception leaves it.
C5_TestTrueIffBothProbesZero ==
    /\ exception = None
    /\ \A k \in 1..Len(test_returned) :
         test_returned[k] =
           (/\ \E n \in PingIdx(k) : calls[n].returncode = 0
            /\ \E n \in LsIdx(k) : calls[n].returncode = 0)

C5_Witness ==
    /\ pc = "done"
    /\ Len(test_returned) = 2
    /\ ~test_returned[1]
    /\ \E n \in PingIdx(1) : calls[n].returncode = 0
    /\ \E n \in LsIdx(1) : calls[n].returncode = 1
    /\ test_returned[2]

\* sub occurs in s when letter case is ignored.
ContainsIgnoreCase(sub, s) ==
    \E i \in 0..(Len(s) - Len(sub)) :
      \A j \in 1..Len(sub) : lower_char(s[i + j]) = sub[j]

\* The output holds the marker "connected", in any letter case or exactly.
Marked(stdout, anycase) ==
    IF anycase THEN ContainsIgnoreCase(T_connected, stdout)
    ELSE Contains(T_connected, stdout)

\* What a connect step that took place did: the target, the verdict on its
\* output, and what a failure leaves undone.
ConnectStep(anycase) ==
    /\ (Len(argv) > 1 /\ argv[2] # <<>> /\ pc \notin {"main", "connect"})
         => ConnectCalls # {}
    /\ \A n \in ConnectCalls :
         /\ calls[n].argv[3] = argv[2] \o <<":", "5", "5", "5", "5">>
         /\ Said("connect_failed") <=> ~Marked(calls[n].stdout, anycase)
         /\ Said("connect_failed") =>
              /\ connected_devices = <<>>
              /\ exception = None
              /\ pc \in {"main_check", "done"}
              /\ DevicesCalls = {}
              /\ GetpropCalls = {}


\* C6 as stated: with a device IP the connect step targets <ip>:5555 and
\* succeeds exactly when its standard output contains "connected"; a failed
\* connect returns the empty list without raising and issues no device-list
\* command and no property query.
C6_ConnectIffOutputHasMarker == ConnectStep(FALSE)

\* C6 amended: the same, with the marker "connected" looked for in any
\* letter case.
C6_ConnectIffOutputHasMarkerAnyCase == ConnectStep(TRUE)

C6_Witness ==
    /\ pc = "done"
    /\ \E n \in ConnectCalls :
         /\ calls[n].stdout = Out_unable
         /\ calls[n].argv[3] = Ip \o Port5555
    /\ Said("connect_failed")
    /\ Len(calls) = 1

\* C7: main never lets an exception out, can always take its next step until
\* it has returned, exits with status 0, and ends an empty device list in the
\* "no devices found" report.
C7_MainReturnsNormally ==
    /\ exception = None
    /\ pc # "crashed"
    /\ pc # "done" => ENABLED Next
    /\ exit_status = (IF pc = "done" THEN <<0>> ELSE <<>>)
    /\ (pc = "done" /\ connected_devices = <<>>) =>
         printed[Len(printed)].msg = "no_devices"

C7_Witness ==
    /\ pc = "done"
    /\ exit_status = <<0>>
    /\ Len(listing) = 2
    /\ listing[1] = [serial |-> Empty, sep |-> Tab, state |-> Empty]
    /\ listing[2].state = T_device
    /\ \E n \in GetpropCalls : calls[n].returncode = 1
    /\ \E n \in PingIdx(1) : calls[n].returncode = 1

\* Two calls issue the same command for the same listing line or DeviceInfo.
SameCommand(c1, c2) ==
    /\ c1.at = c2.at
    /\ Len(c1.argv) = Len(c2.argv)
    /\ \A j \in (1..Len(c1.argv)) \ {3} : c1.argv[j] = c2.argv[j]

\* C8: no external command is retried: at most one connect, at most one
\* device list, each property query exactly once per DeviceInfo and never
\* twice for a line, each probe at most once per DeviceInfo.
C8_NoCommandIsRetried ==
    /\ \A n1 \in 1..Len(calls) : \A n2 \in (n1 + 1)..Len(calls) :
         ~SameCommand(calls[n1], calls[n2])
    /\ \A k \in 1..Len(origin) : \A prop \in PropSet :
         \E n \in 1..Len(calls) :
           /\ IsGetpropCall(calls[n])
           /\ calls[n].at = origin[k]
           /\ calls[n].argv[6] = prop
    /\ \A n \in 1..Len(calls) :
         LET c == calls[n] IN
           /\ (IsConnectCall(c) \/ IsDevicesCall(c)) => c.at = 0
           /\ IsGetpropCall(c) => c.at \in 1..Len(listing) /\ c.argv[6] \in PropSet
           /\ (IsPingCall(c) \/ IsLsCall(c)) => c.at \in 1..Len(connected_devices)

C8_Witness ==
    /\ pc = "done"
    /\ Cardinality(ConnectCalls) = 1
    /\ Len(connected_devices) = 2
    /\ \E n \in PingIdx(1) : calls[n].returncode = 1
    /\ \E n \in LsIdx(2) : calls[n].returncode = 1
    /\ Len(calls) = 11

\* What the call record shows of the tests main has run so far.
TestsInListOrder ==
    /\ (pc = "done" /\ connected_devices # <<>>) =>
         Len(test_returned) = Len(connected_devices)
    /\ \A k \in 1..Len(test_returned) : Cardinality(PingIdx(k)) = 1
    /\ \A k \in 1..Len(connected_devices) :
         /\ \A n \in PingIdx(k) :
              /\ calls[n].argv[3] = connected_devices[k].serial
              /\ \A j \in 1..(k - 1) : \E m \in PingIdx(j) : m < n
              /\ calls[n].returncode # 0 => LsIdx(k) = {}
         /\ \A n \in LsIdx(k) :
              /\ calls[n].argv[3] = connected_devices[k].serial
              /\ n > 1
              /\ IsPingCall(calls[n - 1])
              /\ calls[n - 1].at = k
              /\ calls[n - 1].returncode = 0
    /\ \A n \in PingCalls : calls[n].at \in 1..Len(connected_devices)

\* C10: main tests every DeviceInfo of a non-empty list exactly once, in list
\* order, a failed test not stopping the later ones; the filesystem probe
\* follows a ping probe that exited zero; and the list is not modified once
\* the listing has returned it.
C10_EveryDeviceTestedInOrder ==
    /\ []TestsInListOrder
    /\ [][Listed => connected_devices' = connected_devices]_vars

C10_Witness ==
    /\ pc = "done"
    /\ Len(connected_devices) = 2
    /\ test_returned = <<FALSE, TRUE>>
    /\ \E n \in PingIdx(1) : calls[n].returncode = 1
    /\ LsIdx(1) = {}
    /\ \E n \in LsIdx(2) : calls[n].returncode = 0

\* C9: when adb devices lists no attached device (the header line only),
\* enable_tcpip_mode returns False, so that main prints its instructions and
\* ends, and adb tcpip is never issued; adb tcpip is issued only when the
\* listing holds at least one device.
C9_NoDeviceNoTcpip ==
    /\ \A n \in DevicesCalls :
         HeaderOnly(calls[n].stdout) =>
           /\ TcpipCalls = {}
           /\ pc = "done" => Said("help")
    /\ TcpipCalls # {} =>
         \E i \in 1..Len(listing) : listing[i].serial # <<>>

\* What the run of setup_uiautomator2's main did, read from the commands it
\* issued, the imports it attempted and the interpreter it ran under.
VersionCheckPassed == version_info[1] = 3 /\ version_info[2] >= 6
InstallFailed == \E n \in PipCalls : calls[n].returncode # 0
EveryInstallSucceeded ==
    /\ Cardinality(PipCalls) = Len(requirements)
    /\ ~InstallFailed
EveryImportSucceeded ==
    /\ Len(imports) = Len(packages_to_check)
    /\ \A n \in 1..Len(imports) : imports[n].outcome = "ok"
InitFailed == \E n \in InitCalls : calls[n].returncode # 0
InitSucceeded == InitCalls # {} /\ ~InitFailed

\* C11: create_status_report is never called twice, and when main has
\* returned it was called exactly once, with success=True if and only if the
\* version check passed, every package install succeeded, every import
\* succeeded and uiautomator2 init succeeded; after a failed version check no
\* install, import, requirements file or init happens, after a failed install
\* no import, requirements file or init happens, and after a failed init the
\* closing messages are not printed.
C11_OneStatusReportPerReturn ==
    /\ Len(reports) <= 1
    /\ pc = "returned" =>
         /\ Len(reports) = 1
         /\ reports[1].success <=>
              (VersionCheckPassed /\ EveryInstallSucceeded
                 /\ EveryImportSucceeded /\ InitSucceeded)
         /\ ~VersionCheckPassed =>
              PipCalls = {} /\ imports = <<>> /\ InitCalls = {}
                /\ "requirements.txt" \notin files
         /\ InstallFailed =>
              imports = <<>> /\ InitCalls = {} /\ "requirements.txt" \notin files
         /\ InitFailed => ~Said("setup_complete") /\ ~Said("setup_incomplete")

\* Main returned after a report with success=True, and so did a run whose
\* steps all ran: eight installs, eight imports, the init command.
C11_Witness ==
    /\ pc = "returned"
    /\ Len(reports) = 1
    /\ reports[1].success
    /\ Cardinality(PipCalls) = 8
    /\ Len(imports) = 8
    /\ InitCalls # {}

====
